---------------------------- MODULE Spec2Model ----------------------------
(***************************************************************************)
(* Model of napalm-arubaOS:                                                *)
(*   src/arubaos/helpers.py       ssh_connector, send_single_cmd           *)
(*   src/napalm_aruba505/arubaf.py  ArubaFDriver                           *)
(*                                                                         *)
(* Python strings are sequences of one-character strings, byte strings are *)
(* sequences of integers 0..255.  A call ends with a record                *)
(*   [out |-> "return", val |-> v]   or   [out |-> "raise", exc |-> e].    *)
(***************************************************************************)
EXTENDS Integers, Sequences, FiniteSets, TLC

VARIABLES device, last, scan, channel, call

vars == <<device, last, scan, channel, call>>

Return(v) == [out |-> "return", val |-> v]
Raise(e) == [out |-> "raise", exc |-> e]
Idle == [out |-> "idle"]

-----------------------------------------------------------------------------
(* Python str primitives, as the code uses them *)

Whitespace == {" ", "\n", "\t", "\r"}

\* all sequences over S of length 0..n
RECURSIVE SeqsUpTo(_, _)
SeqsUpTo(S, n) ==
    IF n = 0 THEN {<<>>}
    ELSE LET shorter == SeqsUpTo(S, n - 1)
         IN shorter \cup {Append(s, x) : s \in {t \in shorter : Len(t) = n - 1}, x \in S}

\* concatenation of a sequence of strings
RECURSIVE Concat(_)
Concat(ss) == IF ss = <<>> THEN <<>> ELSE Head(ss) \o Concat(Tail(ss))

\* pat in s
Contains(s, pat) ==
    \E i \in 1..(Len(s) - Len(pat) + 1) : SubSeq(s, i, i + Len(pat) - 1) = pat

\* s.startswith(pat)
StartsWith(s, pat) == Len(s) >= Len(pat) /\ SubSeq(s, 1, Len(pat)) = pat

\* s.split(sep) for a one-character separator: always at least one piece
RECURSIVE SplitFrom(_, _, _, _)
SplitFrom(s, sep, i, cur) ==
    IF i > Len(s) THEN <<cur>>
    ELSE IF s[i] = sep THEN <<cur>> \o SplitFrom(s, sep, i + 1, <<>>)
    ELSE SplitFrom(s, sep, i + 1, Append(cur, s[i]))

split(s, sep) == SplitFrom(s, sep, 1, <<>>)

\* s.split(): the maximal runs of non-whitespace characters
RECURSIVE SplitWsFrom(_, _, _)
SplitWsFrom(s, i, cur) ==
    IF i > Len(s) THEN (IF cur = <<>> THEN <<>> ELSE <<cur>>)
    ELSE IF s[i] \in Whitespace
         THEN (IF cur = <<>> THEN <<>> ELSE <<cur>>) \o SplitWsFrom(s, i + 1, <<>>)
         ELSE SplitWsFrom(s, i + 1, Append(cur, s[i]))

split_ws(s) == SplitWsFrom(s, 1, <<>>)

\* s.strip()
RECURSIVE LStrip(_)
LStrip(s) == IF s # <<>> /\ Head(s) \in Whitespace THEN LStrip(Tail(s)) ELSE s

RECURSIVE RStrip(_)
RStrip(s) ==
    IF s # <<>> /\ s[Len(s)] \in Whitespace THEN RStrip(SubSeq(s, 1, Len(s) - 1)) ELSE s

strip(s) == RStrip(LStrip(s))

\* s.splitlines(): cut at line breaks, no empty piece after a final line break
LineBreaks == {"\n", "\r"}

RECURSIVE SplitLinesFrom(_, _, _)
SplitLinesFrom(s, i, cur) ==
    IF i > Len(s) THEN (IF cur = <<>> THEN <<>> ELSE <<cur>>)
    ELSE IF s[i] \in LineBreaks
         THEN IF s[i] = "\r" /\ i < Len(s) /\ s[i + 1] = "\n"
              THEN <<cur>> \o SplitLinesFrom(s, i + 2, <<>>)
              ELSE <<cur>> \o SplitLinesFrom(s, i + 1, <<>>)
         ELSE SplitLinesFrom(s, i + 1, Append(cur, s[i]))

splitlines(s) == SplitLinesFrom(s, 1, <<>>)

\* s.lower(), on the letters the inputs use
LowerChar(c) ==
    CASE c = "R" -> "r"
      [] c = "S" -> "s"
      [] c = "N" -> "n"
      [] c = "D" -> "d"
      [] c = "M" -> "m"
      [] c = "O" -> "o"
      [] c = "E" -> "e"
      [] c = "L" -> "l"
      [] c = "A" -> "a"
      [] c = "P" -> "p"
      [] OTHER -> c

lower(s) == [i \in 1..Len(s) |-> LowerChar(s[i])]

\* s.replace(pat, rep), leftmost non-overlapping occurrences, pat not empty
RECURSIVE replace(_, _, _)
replace(s, pat, rep) ==
    IF Len(s) < Len(pat) THEN s
    ELSE IF SubSeq(s, 1, Len(pat)) = pat
         THEN rep \o replace(SubSeq(s, Len(pat) + 1, Len(s)), pat, rep)
         ELSE <<Head(s)>> \o replace(Tail(s), pat, rep)

\* tok.isnumeric() and int(tok), on decimal digits
Digits == <<"0", "1", "2", "3", "4", "5", "6", "7", "8", "9">>

DigitValue(c) == (CHOOSE i \in 1..Len(Digits) : Digits[i] = c) - 1

isnumeric(tok) == tok # <<>> /\ \A i \in 1..Len(tok) : \E d \in 1..Len(Digits) : Digits[d] = tok[i]

RECURSIVE int(_)
int(tok) ==
    IF tok = <<>> THEN 0
    ELSE int(SubSeq(tok, 1, Len(tok) - 1)) * Len(Digits) + DigitValue(tok[Len(tok)])

-----------------------------------------------------------------------------
(* arubaf.py: module constants and the text the scanners look for *)

SECONDS == 1
MINUTE_SECONDS == 60
HOUR_SECONDS == 3600
DAY_SECONDS == 24 * HOUR_SECONDS
WEEK_SECONDS == 7 * DAY_SECONDS
YEAR_SECONDS == 365 * DAY_SECONDS

sName == <<"N", "a", "m", "e">>
sDNSDomain == <<"D", "N", "S", "D", "o", "m", "a", "i", "n">>
sSerialNumber == <<"S", "e", "r", "i", "a", "l", " ", "N", "u", "m", "b", "e", "r">>
sMODEL == <<"M", "O", "D", "E", "L">>
sAPUptimeIs == <<"A", "P", " ", "u", "p", "t", "i", "m", "e", " ", "i", "s">>
sHewlettPackard ==
    <<"H", "e", "w", "l", "e", "t", "t", " ", "P", "a", "c", "k", "a", "r", "d">>

\* seq[1] in Python: the second element
HasIndex1(seq) == Len(seq) >= 2
Index1(seq) == seq[2]

\* seq[2] in Python: the third element
HasIndex2(seq) == Len(seq) >= 3
Index2(seq) == seq[3]

-----------------------------------------------------------------------------
(* ArubaFDriver.show_summary_sanitizer *)

SummaryLocals == [hostname_ |-> <<>>, fqdn |-> <<>>, serial_number |-> <<>>, exc |-> "none"]

\* the Name rule without "and not hostname_": a later Name line overwrites
SummaryNameLastWins(acc, l) ==
    IF acc.exc # "none" THEN acc
    ELSE IF Contains(l, sName)
         THEN IF HasIndex1(split(l, ":"))
              THEN [acc EXCEPT !.hostname_ = lower(Index1(split(l, ":")))]
              ELSE [acc EXCEPT !.exc = "IndexError"]
         ELSE acc

\* the Name rule without .lower()
SummaryNameNoLower(acc, l) ==
    IF acc.exc # "none" THEN acc
    ELSE IF Contains(l, sName) /\ acc.hostname_ = <<>>
         THEN IF HasIndex1(split(l, ":"))
              THEN [acc EXCEPT !.hostname_ = Index1(split(l, ":"))]
              ELSE [acc EXCEPT !.exc = "IndexError"]
         ELSE acc

\* if "Name" in l and not hostname_: hostname_ = l.split(':')[1].lower()
SummaryName(acc, l) ==
    IF acc.exc # "none" THEN acc
    ELSE IF Contains(l, sName) /\ acc.hostname_ = <<>>
         THEN IF HasIndex1(split(l, ":"))
              THEN [acc EXCEPT !.hostname_ = lower(Index1(split(l, ":")))]
              ELSE [acc EXCEPT !.exc = "IndexError"]
         ELSE acc

\* if "DNSDomain" in l and hostname_: fqdn = hostname_ + "." + l.split(':')[1]
SummaryDomain(acc, l) ==
    IF acc.exc # "none" THEN acc
    ELSE IF Contains(l, sDNSDomain) /\ acc.hostname_ # <<>>
         THEN IF HasIndex1(split(l, ":"))
              THEN [acc EXCEPT !.fqdn = acc.hostname_ \o <<".">> \o Index1(split(l, ":"))]
              ELSE [acc EXCEPT !.exc = "IndexError"]
         ELSE acc

\* if "Serial Number" in l: serial_number = l.split(':')[1]
SummarySerial(acc, l) ==
    IF acc.exc # "none" THEN acc
    ELSE IF Contains(l, sSerialNumber)
         THEN IF HasIndex1(split(l, ":"))
              THEN [acc EXCEPT !.serial_number = Index1(split(l, ":"))]
              ELSE [acc EXCEPT !.exc = "IndexError"]
         ELSE acc

\* one iteration of "for l in data_l"
SummaryIter(acc, l) == SummarySerial(SummaryDomain(SummaryName(acc, l), l), l)

\* data_l: data.strip().splitlines() when data is truthy, else no iteration
SummaryLines(data) == IF data # <<>> THEN splitlines(strip(data)) ELSE <<>>

SummaryResult(acc) ==
    IF acc.exc # "none" THEN Raise(acc.exc)
    ELSE Return([hostname_ |-> acc.hostname_, fqdn |-> acc.fqdn,
                 serial_number |-> acc.serial_number])

RECURSIVE SummaryFold(_, _)
SummaryFold(acc, lines) ==
    IF lines = <<>> \/ acc.exc # "none" THEN acc
    ELSE SummaryFold(SummaryIter(acc, Head(lines)), Tail(lines))

\* the whole call, as get_facts uses it
show_summary_sanitizer(data) == SummaryResult(SummaryFold(SummaryLocals, SummaryLines(data)))

-----------------------------------------------------------------------------
(* ArubaFDriver.show_version_sanitizer *)

StrVal(s) == [t |-> "str", v |-> s]
FloatVal(n) == [t |-> "float", v |-> n]

VersionLocals ==
    [model |-> <<>>, os_version |-> <<>>, uptime |-> StrVal(<<>>),
     years |-> 0, weeks |-> 0, days |-> 0, hours |-> 0, minutes |-> 0, seconds |-> 0,
     exc |-> "none"]

\* if "MODEL" in l: model, os_version = l.split(',')
VersionModel(acc, l) ==
    IF acc.exc # "none" THEN acc
    ELSE IF Contains(l, sMODEL)
         THEN LET parts == split(l, ",")
              IN IF Len(parts) = 2
                 THEN [acc EXCEPT !.model = parts[1], !.os_version = parts[2]]
                 ELSE [acc EXCEPT !.exc = "ValueError"]
         ELSE acc

\* uptimes_records = [int(i) for i in l.replace("AP uptime is", "").split() if i.isnumeric()]
UptimesRecords(l) ==
    LET tmp_uptime == split_ws(replace(l, sAPUptimeIs, <<>>))
        numeric == SelectSeq(tmp_uptime, isnumeric)
    IN [i \in 1..Len(numeric) |-> int(numeric[i])]

\* float(sum([...])) over the six locals
UptimeSum(acc) ==
    acc.years * YEAR_SECONDS + acc.weeks * WEEK_SECONDS + acc.days * DAY_SECONDS
    + acc.hours * HOUR_SECONDS + acc.minutes * MINUTE_SECONDS + acc.seconds * SECONDS

\* if uptimes_records and len(uptimes_records) >= 5: unpack into five names
VersionUptime5(acc, recs) ==
    IF acc.exc # "none" THEN acc
    ELSE IF recs # <<>> /\ Len(recs) >= 5
         THEN IF Len(recs) = 5
              THEN LET a == [acc EXCEPT !.weeks = recs[1], !.days = recs[2], !.hours = recs[3],
                                        !.minutes = recs[4], !.seconds = recs[5]]
                   IN [a EXCEPT !.uptime = FloatVal(UptimeSum(a))]
              ELSE [acc EXCEPT !.exc = "ValueError"]
         ELSE acc

\* if uptimes_records and len(uptimes_records) == 4: unpack into four names
VersionUptime4(acc, recs) ==
    IF acc.exc # "none" THEN acc
    ELSE IF recs # <<>> /\ Len(recs) = 4
         THEN LET a == [acc EXCEPT !.weeks = recs[1], !.days = recs[2], !.hours = recs[3],
                                   !.minutes = recs[4]]
              IN [a EXCEPT !.uptime = FloatVal(UptimeSum(a))]
         ELSE acc

\* if "AP uptime is" in l: ...
VersionUptime(acc, l) ==
    IF acc.exc # "none" THEN acc
    ELSE IF Contains(l, sAPUptimeIs)
         THEN VersionUptime4(VersionUptime5(acc, UptimesRecords(l)), UptimesRecords(l))
         ELSE acc

\* one iteration of "for l in data_l"
VersionIter(acc, l) == VersionUptime(VersionModel(acc, l), l)

VersionLines(data) == IF data # <<>> THEN splitlines(strip(data)) ELSE <<>>

VersionResult(acc) ==
    IF acc.exc # "none" THEN Raise(acc.exc)
    ELSE Return([vendor |-> sHewlettPackard, model |-> acc.model,
                 os_version |-> acc.os_version, uptime |-> acc.uptime])

RECURSIVE VersionFold(_, _)
VersionFold(acc, lines) ==
    IF lines = <<>> \/ acc.exc # "none" THEN acc
    ELSE VersionFold(VersionIter(acc, Head(lines)), Tail(lines))

show_version_sanitizer(data) == VersionResult(VersionFold(VersionLocals, VersionLines(data)))

-----------------------------------------------------------------------------
(* Inputs of the scanners: texts of up to MaxSummaryLines / MaxVersionLines  *)
(* lines, every line followed by a line break as get_facts builds them.      *)

MaxSummaryLines == 3
MaxVersionLines == 2
MaxTokens == 6

NameValues == {<<>>, <<"R">>, <<"b", ":", "c">>}
DomainValues == {<<"d">>}
SerialValues == {<<"S">>, <<"T", " ">>}
NoiseLine == <<"x">>

\* a line that holds both "Name" and "Serial Number"
BothLine == sName \o <<" ">> \o sSerialNumber \o <<":", "Q">>

SummaryLineSet ==
    {sName, sDNSDomain, sSerialNumber, NoiseLine, BothLine}
    \cup {sName \o <<":">> \o v : v \in NameValues}
    \cup {sDNSDomain \o <<":">> \o v : v \in DomainValues}
    \cup {sSerialNumber \o <<":">> \o v : v \in SerialValues}

\* " 1 2 ... k"
UptimeTokens(k) == Concat([i \in 1..k |-> <<" ", Digits[i + 1]>>])

UptimeLineSet ==
    {sAPUptimeIs \o UptimeTokens(k) : k \in 0..MaxTokens}
    \cup {sAPUptimeIs \o <<" ", "2", " ", "w", " ", "3", " ", "d", " ", "4", " ", "h",
                            " ", "5", " ", "m">>}

VersionLineSet ==
    {sMODEL, sMODEL \o <<",", "v">>, sMODEL \o <<",", "v", ",", "w">>, NoiseLine}
    \cup UptimeLineSet

\* the text whose lines are ls, each followed by a line break
Text(ls) == Concat([i \in 1..Len(ls) |-> ls[i] \o <<"\n">>])

SummaryInputs == {Text(ls) : ls \in SeqsUpTo(SummaryLineSet, MaxSummaryLines)}
VersionInputs == {Text(ls) : ls \in SeqsUpTo(VersionLineSet, MaxVersionLines)}

-----------------------------------------------------------------------------
(* The scanners run line by line: scan holds the locals of the running call *)

ScanIdle == [pc |-> "idle", fn |-> "none"]

ScanSummaryCall ==
    /\ scan.pc = "idle"
    /\ \E data \in SummaryInputs :
          scan' = [pc |-> "loop", fn |-> "summary", data |-> data,
                   lines |-> SummaryLines(data), i |-> 1, acc |-> SummaryLocals,
                   result |-> Idle]
    /\ UNCHANGED <<device, last, channel, call>>

ScanSummaryIter ==
    /\ scan.pc = "loop" /\ scan.fn = "summary" /\ scan.i <= Len(scan.lines)
    /\ LET a == SummaryIter(scan.acc, scan.lines[scan.i])
       IN scan' = IF a.exc # "none"
                  THEN [scan EXCEPT !.acc = a, !.pc = "done", !.result = Raise(a.exc)]
                  ELSE [scan EXCEPT !.acc = a, !.i = scan.i + 1]
    /\ UNCHANGED <<device, last, channel, call>>

ScanSummaryReturn ==
    /\ scan.pc = "loop" /\ scan.fn = "summary" /\ scan.i > Len(scan.lines)
    /\ scan' = [scan EXCEPT !.pc = "done", !.result = SummaryResult(scan.acc)]
    /\ UNCHANGED <<device, last, channel, call>>

\* the caller has the result of the scan
ScanResume ==
    /\ scan.pc = "done"
    /\ scan' = ScanIdle
    /\ UNCHANGED <<device, last, channel, call>>

ScanVersionCall ==
    /\ scan.pc = "idle"
    /\ \E data \in VersionInputs :
          scan' = [pc |-> "loop", fn |-> "version", data |-> data,
                   lines |-> VersionLines(data), i |-> 1, acc |-> VersionLocals,
                   result |-> Idle]
    /\ UNCHANGED <<device, last, channel, call>>

ScanVersionIter ==
    /\ scan.pc = "loop" /\ scan.fn = "version" /\ scan.i <= Len(scan.lines)
    /\ LET a == VersionIter(scan.acc, scan.lines[scan.i])
       IN scan' = IF a.exc # "none"
                  THEN [scan EXCEPT !.acc = a, !.pc = "done", !.result = Raise(a.exc)]
                  ELSE [scan EXCEPT !.acc = a, !.i = scan.i + 1]
    /\ UNCHANGED <<device, last, channel, call>>

ScanVersionReturn ==
    /\ scan.pc = "loop" /\ scan.fn = "version" /\ scan.i > Len(scan.lines)
    /\ scan' = [scan EXCEPT !.pc = "done", !.result = VersionResult(scan.acc)]
    /\ UNCHANGED <<device, last, channel, call>>

-----------------------------------------------------------------------------
(* ArubaFDriver: the device session.  self.device is None until open() has  *)
(* built a netmiko handler; the handler keeps remote_conn (None once         *)
(* disconnect() ran) and its transport is active until the link drops.       *)

NoDevice == [kind |-> "None"]
Handler(rc, act) == [kind |-> "handler", remote_conn |-> rc, active |-> act]

\* self.device.send_command(command) returns text only over a live session
CanSend(dev) == dev.kind = "handler" /\ dev.remote_conn = "conn" /\ dev.active

\* what send_command raises otherwise
SendFailure(dev) ==
    IF dev.kind = "None" \/ dev.remote_conn = "None" THEN "AttributeError" ELSE "socket.error"

\* self.device.write_channel(null): how the write can end for a handler
WriteChannelOutcomes(dev) ==
    IF dev.remote_conn = "None" THEN {"AttributeError", "socket.error"}
    ELSE IF dev.active THEN {"ok"}
    ELSE {"ok", "socket.error", "EOFError"}

\* except (socket.error, EOFError)
IsAliveCaught == {"socket.error", "EOFError"}

\* last is the call the driver answered last; the caller takes the answer
\* before it calls again
Ready == [op |-> "ready", result |-> Idle]

\* __init__: self.device = None
DriverInit == device = NoDevice /\ last = Ready

\* the caller has the result (or the exception) of the last call
Resume ==
    /\ last # Ready
    /\ last' = Ready
    /\ UNCHANGED <<device, scan, channel, call>>

\* open(): ConnectHandler(...) builds the handler or raises
open ==
    /\ last = Ready
    /\ \E connected \in BOOLEAN :
          IF connected
          THEN /\ device' = Handler("conn", TRUE)
               /\ last' = [op |-> "open", result |-> Return("None")]
          ELSE /\ device' = device
               /\ last' = [op |-> "open", result |-> Raise("NetmikoTimeoutException")]
    /\ UNCHANGED <<scan, channel, call>>

\* close(): self.device.disconnect()
close ==
    /\ last = Ready
    /\ IF device.kind = "None"
       THEN /\ device' = device
            /\ last' = [op |-> "close", result |-> Raise("AttributeError")]
       ELSE /\ device' = Handler("None", FALSE)
            /\ last' = [op |-> "close", result |-> Return("None")]
    /\ UNCHANGED <<scan, channel, call>>

\* the remote end or the network drops the session
LinkDown ==
    /\ device.kind = "handler" /\ device.remote_conn = "conn" /\ device.active
    /\ device' = Handler("conn", FALSE)
    /\ UNCHANGED <<last, scan, channel, call>>

\* is_alive()
IsAliveResult(dev, w) ==
    IF dev.kind = "None" THEN Return(FALSE)
    ELSE IF w = "ok" THEN Return(dev.active)
    ELSE IF w \in IsAliveCaught THEN Return(FALSE)
    ELSE Raise(w)

is_alive ==
    /\ last = Ready
    /\ \E w \in (IF device.kind = "None" THEN {"not written"} ELSE WriteChannelOutcomes(device)) :
          last' = [op |-> "is_alive", session |-> device.kind = "handler", write |-> w,
                   active |-> device.kind = "handler" /\ device.active,
                   result |-> IsAliveResult(device, w)]
    /\ UNCHANGED <<device, scan, channel, call>>

-----------------------------------------------------------------------------
(* Blank-line removal of get_config and get_facts *)

MaxRawLen == 6

RawChars == {"a", " ", "\n"}
RawTexts == SeqsUpTo(RawChars, MaxRawLen)

\* a filter that drops only the lines of no characters
NonEmptyLineNoStrip(line) == line # <<>>

\* [line for line in data if line.strip() != ""]
NonEmptyLine(line) == strip(line) # <<>>

\* string_without_empty_lines += line + "\n", for each kept line
RECURSIVE JoinLines(_)
JoinLines(ls) == IF ls = <<>> THEN <<>> ELSE Head(ls) \o <<"\n">> \o JoinLines(Tail(ls))

normalize(raw) == JoinLines(SelectSeq(split(raw, "\n"), NonEmptyLine))

sAll == <<"a", "l", "l">>
sRunning == <<"r", "u", "n", "n", "i", "n", "g">>
sStartup == <<"s", "t", "a", "r", "t", "u", "p">>
sNoStartup == <<"N", "o", " ", "S", "t", "a", "r", "t", "u", "p">>
sNoCandidate == <<"N", "o", " ", "C", "a", "n", "d", "i", "d", "a", "t", "e">>
Retrieves == {sAll, <<"A", "L", "L">>, sRunning, sStartup}

\* get_config(retrieve): the configs dictionary
ConfigResult(retrieve, output) ==
    [running |-> IF lower(retrieve) \in {sRunning, sAll} /\ output # <<>>
                 THEN normalize(output) ELSE <<>>,
     startup |-> sNoStartup,
     candidate |-> sNoCandidate]

get_config ==
    /\ last = Ready
    /\ \E retrieve \in Retrieves :
          IF lower(retrieve) \in {sRunning, sAll}
          THEN IF CanSend(device)
               THEN \E output \in RawTexts :
                       last' = [op |-> "get_config", retrieve |-> retrieve, sent |-> TRUE,
                                output |-> output,
                                result |-> Return(ConfigResult(retrieve, output))]
               ELSE last' = [op |-> "get_config", retrieve |-> retrieve, sent |-> FALSE,
                             output |-> <<>>, result |-> Raise(SendFailure(device))]
          ELSE last' = [op |-> "get_config", retrieve |-> retrieve, sent |-> FALSE,
                        output |-> <<>>,
                        result |-> Return(ConfigResult(retrieve, <<>>))]
    /\ UNCHANGED <<device, scan, channel, call>>

-----------------------------------------------------------------------------
(* get_ping *)

bad_responses ==
    <<<<"n", "o", "t", " ", "k", "n", "o", "w", "n">>,
      <<"N", "a", "m", "e", " ", "o", "r", " ", "s", "e", "r", "v", "i", "c", "e", " ", "n", "o", "t", " ", "k", "n", "o", "w", "n">>,
      <<"E", "r", "r", "o", "r">>,
      <<"e", "r", "r", "o", "r">>,
      <<"f", "a", "i", "l">>,
      <<"F", "a", "i", "l">>,
      <<"D", "e", "s", "t", "i", "n", "a", "t", "i", "o", "n", " ", "H", "o", "s", "t", " ", "U", "n", "r", "e", "a", "c", "h", "a", "b", "l", "e">>,
      <<"D", "e", "s", "t", "i", "n", "a", "t", "i", "o", "n">>,
      <<"U", "n", "r", "e", "a", "c", "h", "a", "b", "l", "e">>,
      <<"e", "s", "t", "i", "n", "a", "t", "i", "o", "n">>,
      <<"r", "e", "a", "c", "h", "a", "b", "l", "e">>,
      <<"c", "o", "n", "n", "e", "c", "t">>>>

sPing == <<"p", "i", "n", "g", " ">>
sHostname == <<"h">>

PingOutputs ==
    {<<>>, <<"o", "k">>, <<"5", " ", "p", "a", "c", "k", "e", "t", "s", " ", "r", "e", "c", "e", "i", "v", "e", "d">>}
    \cup {bad_responses[i] : i \in 1..Len(bad_responses)}
    \cup {sPing \o bad_responses[i] : i \in 1..Len(bad_responses)}

\* the for/break loop over bad_responses, and the elif of "if output:"
PingDict(output) ==
    IF output # <<>>
    THEN IF \E i \in 1..Len(bad_responses) : Contains(output, bad_responses[i])
         THEN {<<"error", "disconnected">>}
         ELSE {}
    ELSE IF output # <<>> /\ Len(output) > 10
         THEN {<<"success", "connected">>}
         ELSE {}

\* return output
PingReturn(output, ping_dict) == output

get_ping ==
    /\ last = Ready
    /\ IF CanSend(device)
       THEN \E output \in PingOutputs :
               last' = [op |-> "get_ping", command |-> sPing \o sHostname, sent |-> TRUE,
                        output |-> output,
                        ping_dict |-> PingDict(output),
                        result |-> Return(PingReturn(output, PingDict(output)))]
       ELSE last' = [op |-> "get_ping", command |-> sPing \o sHostname, sent |-> FALSE,
                     output |-> <<>>,
                     ping_dict |-> {},
                     result |-> Raise(SendFailure(device))]
    /\ UNCHANGED <<device, scan, channel, call>>

-----------------------------------------------------------------------------
(* get_lldp_neighbors / get_lldp_neighbors_detail *)

MaxLldpLines == 3

sSystemName == <<"S", "y", "s", "t", "e", "m", " ", "n", "a", "m", "e", ":">>
sInterfaceDescription == <<"I", "n", "t", "e", "r", "f", "a", "c", "e", " ", "d", "e", "s", "c", "r", "i", "p", "t", "i", "o", "n", ":">>
sHP == <<"H", "P">>
sSwitch == <<"S", "w", "i", "t", "c", "h">>
sRevision == <<"r", "e", "v", "i", "s", "i", "o", "n">>
sROM == <<"R", "O", "M">>

LldpLineSet ==
    {<<>>, NoiseLine,
     sSystemName, sSystemName \o <<"A">>,
     sSystemName \o <<" ", "A">>, <<" ">> \o sSystemName \o <<" ", "B", " ">>,
     sInterfaceDescription,
     sInterfaceDescription \o <<" ", "1", ",">>, sInterfaceDescription \o <<" ", "2", ",", "3">>,
     sHP \o <<" ">> \o sSwitch \o <<" ">> \o sRevision \o <<" ">> \o sROM}

\* the dump whose lines are ls, separated by line breaks
RECURSIVE Dump(_)
Dump(ls) ==
    IF ls = <<>> THEN <<>>
    ELSE IF Len(ls) = 1 THEN Head(ls)
    ELSE Head(ls) \o <<"\n">> \o Dump(Tail(ls))

LldpOutputs == {Dump(ls) : ls \in SeqsUpTo(LldpLineSet, MaxLldpLines)}

LldpLocals ==
    [system_name |-> <<>>, interface_description |-> <<>>, vendor |-> "unbound", exc |-> "none"]

\* if "System name:" in line: system_name = line.split()[2]
LldpSystemName(acc, line) ==
    IF acc.exc # "none" THEN acc
    ELSE IF Contains(line, sSystemName)
         THEN IF HasIndex2(split_ws(line))
              THEN [acc EXCEPT !.system_name = Index2(split_ws(line))]
              ELSE [acc EXCEPT !.exc = "IndexError"]
         ELSE acc

\* if "Interface description:" in line:
\*     interface_description = line.split()[2].replace(",", "")
LldpInterfaceDescription(acc, line) ==
    IF acc.exc # "none" THEN acc
    ELSE IF Contains(line, sInterfaceDescription)
         THEN IF HasIndex2(split_ws(line))
              THEN [acc EXCEPT !.interface_description =
                                  replace(Index2(split_ws(line)), <<",">>, <<>>)]
              ELSE [acc EXCEPT !.exc = "IndexError"]
         ELSE acc

\* if line.startswith("HP"): if "Switch" in line and "revision" in line and
\*     "ROM" in line: vendor = "HP"      (a local nothing reads)
LldpVendor(acc, line) ==
    IF acc.exc # "none" THEN acc
    ELSE IF /\ StartsWith(line, sHP)
            /\ Contains(line, sSwitch) /\ Contains(line, sRevision) /\ Contains(line, sROM)
         THEN [acc EXCEPT !.vendor = "HP"]
         ELSE acc

\* one iteration of "for line in data"
LldpIter(acc, line) ==
    IF line # <<>>
    THEN LldpVendor(LldpInterfaceDescription(LldpSystemName(acc, line), line), line)
    ELSE acc

\* data = [line.strip() for line in result.splitlines()]
LldpData(result) == [i \in 1..Len(splitlines(result)) |-> strip(splitlines(result)[i])]

RECURSIVE LldpFold(_, _)
LldpFold(acc, lines) ==
    IF lines = <<>> \/ acc.exc # "none" THEN acc
    ELSE LldpFold(LldpIter(acc, Head(lines)), Tail(lines))

\* lldp["eth0"] = [{"hostname": system_name, "port": interface_description}]
LldpRecord(acc) == [hostname |-> acc.system_name, port |-> acc.interface_description]

LldpResult(acc) ==
    IF acc.exc # "none" THEN Raise(acc.exc)
    ELSE Return([k \in {"eth0"} |-> <<LldpRecord(acc)>>])

LldpNeighbors(result) == LldpResult(LldpFold(LldpLocals, LldpData(result)))

get_lldp_neighbors ==
    /\ last = Ready
    /\ IF CanSend(device)
       THEN \E output \in LldpOutputs :
               last' = [op |-> "get_lldp_neighbors", interface |-> "eth0", sent |-> TRUE,
                        output |-> output,
                        result |-> LldpNeighbors(output)]
       ELSE last' = [op |-> "get_lldp_neighbors", interface |-> "eth0", sent |-> FALSE,
                     output |-> <<>>,
                     result |-> Raise(SendFailure(device))]
    /\ UNCHANGED <<device, scan, channel, call>>

Interfaces == {"eth0", "eth1"}

get_lldp_neighbors_detail ==
    /\ last = Ready
    /\ \E interface \in Interfaces :
          IF CanSend(device)
          THEN \E output \in LldpOutputs :
                  last' = [op |-> "get_lldp_neighbors_detail", interface |-> interface,
                           sent |-> TRUE, output |-> output, result |-> LldpNeighbors(output)]
          ELSE last' = [op |-> "get_lldp_neighbors_detail", interface |-> interface,
                        sent |-> FALSE, output |-> <<>>, result |-> Raise(SendFailure(device))]
    /\ UNCHANGED <<device, scan, channel, call>>

-----------------------------------------------------------------------------
(* get_facts *)

MaxFactsLines == 1

BlankLines == {<<>>, <<" ">>}

FactsVersionOutputs == {Dump(ls) : ls \in SeqsUpTo(VersionLineSet \cup BlankLines, MaxFactsLines)}
FactsSummaryOutputs == {Dump(ls) : ls \in SeqsUpTo(SummaryLineSet \cup BlankLines, MaxFactsLines)}

\* the returned dictionary, or the exception of the scanner that failed first
FactsResult(show_version_output, show_summary_output) ==
    LET version == show_version_sanitizer(normalize(show_version_output))
        summary == show_summary_sanitizer(normalize(show_summary_output))
    IN IF version.out = "raise" THEN version
       ELSE IF summary.out = "raise" THEN summary
       ELSE Return([hostname |-> summary.val.hostname_,
                    fqdn |-> summary.val.fqdn,
                    vendor |-> version.val.vendor,
                    model |-> version.val.model,
                    serial_number |-> summary.val.serial_number,
                    os_version |-> strip(version.val.os_version),
                    uptime |-> version.val.uptime])

get_facts ==
    /\ last = Ready
    /\ IF CanSend(device)
       THEN \E v \in FactsVersionOutputs, m \in FactsSummaryOutputs :
               last' = [op |-> "get_facts", sent |-> TRUE, show_version |-> v,
                        show_summary |-> m,
                        result |-> FactsResult(v, m)]
       ELSE last' = [op |-> "get_facts", sent |-> FALSE, show_version |-> <<>>,
                     show_summary |-> <<>>,
                     result |-> Raise(SendFailure(device))]
    /\ UNCHANGED <<device, scan, channel, call>>

-----------------------------------------------------------------------------
(* helpers.py: ssh_connector and send_single_cmd.  Text read from the       *)
(* channel is a sequence of code points.                                     *)

MaxChunk == 2

NoneVal == [t |-> "None"]

CallIdle == [pc |-> "idle"]

NoChannel == [kind |-> "None"]
Connected == [kind |-> "channel", state |-> "Connected"]

\* bytes the device may send: "a", and the two bytes of U+00E9
Bytes == {97, 195, 169}

\* channel.recv(99999): the bytes that are buffered, none once the peer closed
Chunks == SeqsUpTo(Bytes, MaxChunk)

Cmds == {<<>>, <<"p">>, <<"p", "q">>}

\* bytes.decode("utf-8"), strict, for one- and two-byte sequences
RECURSIVE decode(_)
decode(b) ==
    IF b = <<>> THEN [ok |-> TRUE, text |-> <<>>]
    ELSE IF Head(b) < 128
         THEN LET rest == decode(Tail(b))
              IN [ok |-> rest.ok, text |-> <<Head(b)>> \o rest.text]
    ELSE IF Head(b) \in 194..223 /\ Len(b) >= 2 /\ b[2] \in 128..191
         THEN LET rest == decode(Tail(Tail(b)))
              IN [ok |-> rest.ok, text |-> <<(Head(b) - 192) * 64 + (b[2] - 128)>> \o rest.text]
    ELSE [ok |-> FALSE, text |-> <<>>]

\* channel.send(cmd + "\n")
SentData(cmd) == cmd \o <<"\n">>

CallLocals(cmd, ch) ==
    [pc |-> "check_cmd", cmd |-> cmd, channel |-> ch, banner |-> <<>>, output |-> <<>>,
     reads |-> <<>>, log |-> <<>>, result |-> Idle]

\* ssh_connector: the shell channel, or None when the connection failed
ssh_connector ==
    /\ call.pc = "idle"
    /\ \E ok \in BOOLEAN : channel' = IF ok THEN Connected ELSE NoChannel
    /\ UNCHANGED <<device, last, scan, call>>

\* a caller enters send_single_cmd(cmd, channel)
send_single_cmd ==
    /\ call.pc = "idle"
    /\ \E cmd \in Cmds : call' = CallLocals(cmd, channel)
    /\ UNCHANGED <<device, last, scan, channel>>

\* if not cmd: return None
CheckCmd ==
    /\ call.pc = "check_cmd"
    /\ call' = IF call.cmd = <<>>
               THEN [call EXCEPT !.pc = "done", !.result = Return(NoneVal)]
               ELSE [call EXCEPT !.pc = "check_channel"]
    /\ UNCHANGED <<device, last, scan, channel>>

\* the exchange without its first read: the command is written at once
CheckChannelSkipsBanner ==
    /\ call.pc = "check_channel"
    /\ call' = IF call.channel.kind = "None"
               THEN [call EXCEPT !.pc = "done", !.result = Return(NoneVal)]
               ELSE [call EXCEPT !.pc = "send"]
    /\ UNCHANGED <<device, last, scan, channel>>

\* if not channel: return None
CheckChannel ==
    /\ call.pc = "check_channel"
    /\ call' = IF call.channel.kind = "None"
               THEN [call EXCEPT !.pc = "done", !.result = Return(NoneVal)]
               ELSE [call EXCEPT !.pc = "recv_banner"]
    /\ UNCHANGED <<device, last, scan, channel>>

\* banner = channel.recv(99999).decode("utf-8")
RecvBanner ==
    /\ call.pc = "recv_banner"
    /\ \E chunk \in Chunks :
          call' = IF decode(chunk).ok
                  THEN [call EXCEPT !.pc = "send", !.banner = decode(chunk).text,
                                    !.reads = Append(@, chunk), !.log = Append(@, <<"recv">>)]
                  ELSE [call EXCEPT !.pc = "done", !.result = Raise("UnicodeDecodeError"),
                                    !.reads = Append(@, chunk), !.log = Append(@, <<"recv">>)]
    /\ UNCHANGED <<device, last, scan, channel>>

\* channel.send(cmd + "\n")
Send ==
    /\ call.pc = "send"
    /\ call' = [call EXCEPT !.pc = "recv_output",
                            !.log = Append(@, <<"send", SentData(call.cmd)>>)]
    /\ UNCHANGED <<device, last, scan, channel>>

\* output = channel.recv(99999).decode("utf-8"); return output
RecvOutput ==
    /\ call.pc = "recv_output"
    /\ \E chunk \in Chunks :
          call' = IF decode(chunk).ok
                  THEN [call EXCEPT !.pc = "done", !.output = decode(chunk).text,
                                    !.result = Return(StrVal(decode(chunk).text)),
                                    !.reads = Append(@, chunk), !.log = Append(@, <<"recv">>)]
                  ELSE [call EXCEPT !.pc = "done", !.result = Raise("UnicodeDecodeError"),
                                    !.reads = Append(@, chunk), !.log = Append(@, <<"recv">>)]
    /\ UNCHANGED <<device, last, scan, channel>>

\* the caller has the result; the channel is used for the next exchange
CallResume ==
    /\ call.pc = "done"
    /\ call' = CallIdle
    /\ UNCHANGED <<device, last, scan, channel>>

-----------------------------------------------------------------------------
(* Specifications *)


\* the driver and its device session
Init == DriverInit /\ scan = ScanIdle /\ channel = NoChannel /\ call = CallIdle

Next ==
    \/ Resume
    \/ open
    \/ close
    \/ LinkDown
    \/ is_alive
    \/ get_config
    \/ get_facts
    \/ get_ping
    \/ get_lldp_neighbors
    \/ get_lldp_neighbors_detail

Spec == Init /\ [][Next]_vars

\* the two scanners, called on their own
ScanNext ==
    \/ ScanSummaryCall
    \/ ScanSummaryIter
    \/ ScanSummaryReturn
    \/ ScanVersionCall
    \/ ScanVersionIter
    \/ ScanVersionReturn
    \/ ScanResume

SpecScan == Init /\ [][ScanNext]_vars

\* the command exchange over the shell channel
ChannelNext ==
    \/ ssh_connector
    \/ send_single_cmd
    \/ CheckCmd
    \/ CheckChannel
    \/ RecvBanner
    \/ Send
    \/ RecvOutput
    \/ CallResume

SpecChannel == Init /\ [][ChannelNext]_vars

-----------------------------------------------------------------------------
(* Claims about send_single_cmd, checked under SpecChannel *)

PreconditionFails == call.cmd = <<>> \/ call.channel.kind = "None"

\* C1: send_single_cmd returns None when the command is empty or the channel
\* is absent, and for a channel and a non-empty command it returns exactly
\* the decoded text of the second read.
C1_ReturnsSecondRead ==
    call.pc = "done" =>
       /\ call.result.out = "return"
       /\ IF PreconditionFails
          THEN call.result.val.t = "None"
          ELSE /\ call.result.val.t = "str"
               /\ Len(call.reads) = 2
               /\ decode(call.reads[2]).ok
               /\ call.result.val.v = decode(call.reads[2]).text

\* the channel operations of a whole exchange, in order
ExchangeLog(cmd) == <<(<<"recv">>), (<<"send", cmd \o <<"\n">> >>), (<<"recv">>)>>

IsPrefix(p, q) == Len(p) <= Len(q) /\ SubSeq(q, 1, Len(p)) = p

\* C10: a successful exchange is exactly one read (discarded), then one write
\* of the command and a line terminator, then one read whose text is the
\* result; at every point of a call the operations done so far are a prefix
\* of that order; a call that fails its precondition touches the channel not
\* at all; and the channel stays Connected over any number of exchanges.
C10_ExchangeOrder ==
    /\ channel.kind = "channel" => channel.state = "Connected"
    /\ call.pc # "idle" =>
          /\ IsPrefix(call.log, ExchangeLog(call.cmd))
          /\ Len(call.reads) = Cardinality({i \in 1..Len(call.log) : call.log[i] = <<"recv">>})
          /\ PreconditionFails => call.log = <<>>
          /\ (call.pc = "done" /\ call.result.out = "return" /\ ~PreconditionFails) =>
                /\ call.log = ExchangeLog(call.cmd)
                /\ call.result.val.t = "str"
                /\ call.result.val.v = decode(call.reads[2]).text
                /\ call.channel = Connected /\ channel = Connected

\* a successful exchange whose banner differs from its non-empty result
C10_Witness ==
    /\ call.pc = "done" /\ call.result.out = "return" /\ ~PreconditionFails
    /\ call.log = ExchangeLog(call.cmd)
    /\ call.reads[1] # call.reads[2]
    /\ call.result.val.v # <<>>

-----------------------------------------------------------------------------
(* Claims about the driver, checked under Spec *)

\* C2: is_alive never raises, in any lifecycle state: it reports not alive
\* when no device session exists or when the write of the null byte fails,
\* and otherwise what the transport says.
C2_IsAliveNeverRaises ==
    last.op = "is_alive" =>
       /\ last.result.out = "return"
       /\ last.result.val = IF ~last.session \/ last.write # "ok" THEN FALSE ELSE last.active

\* C5: get_ping returns a failure marker, not the raw output, when the output
\* holds one of the failure substrings, and the raw output otherwise.
C5_PingClassifies ==
    (last.op = "get_ping" /\ last.sent) =>
       /\ last.result.out = "return"
       /\ IF \E i \in 1..Len(bad_responses) : Contains(last.output, bad_responses[i])
          THEN last.result.val # last.output
          ELSE last.result.val = last.output

ScanOps == {"get_facts", "get_lldp_neighbors", "get_lldp_neighbors_detail"}

\* C7: every extractor is total: whatever text the device answers, the
\* summary, version and neighbor scans return a value for every field.
C7_ExtractorsTotal ==
    (last.op \in ScanOps /\ last.sent) => last.result.out = "return"

\* the lines of a dump that hold pat, stripped as the scan strips them
MatchingLines(output, pat) == SelectSeq(LldpData(output), LAMBDA line : Contains(line, pat))

\* the third whitespace token of the last line holding pat, "" without one
ThirdTokenOfLast(output, pat) ==
    LET ms == MatchingLines(output, pat)
    IN IF ms = <<>> THEN <<>> ELSE split_ws(ms[Len(ms)])[3]

\* C8: both neighbor calls return a map with the one key "eth0" and one
\* record: hostname the third token of the last "System name:" line, port
\* the third token, commas removed, of the last "Interface description:"
\* line, each "" when there is no such line.
C8_OneNeighborRecord ==
    (last.op \in {"get_lldp_neighbors", "get_lldp_neighbors_detail"} /\ last.sent) =>
       /\ last.result.out = "return"
       /\ DOMAIN last.result.val = {"eth0"}
       /\ Len(last.result.val["eth0"]) = 1
       /\ last.result.val["eth0"][1].hostname = ThirdTokenOfLast(last.output, sSystemName)
       /\ last.result.val["eth0"][1].port =
             SelectSeq(ThirdTokenOfLast(last.output, sInterfaceDescription),
                       LAMBDA c : c # ",")

\* the lines of a text of whole lines (each ended by one line break)
WholeLines(text) ==
    IF text = <<>> THEN <<>> ELSE split(SubSeq(text, 1, Len(text) - 1), "\n")

IsBlank(line) == \A i \in 1..Len(line) : line[i] \in Whitespace

\* the subsequence of ls picked by the predicate, computed position by position
RECURSIVE Kept(_, _)
Kept(ls, i) ==
    IF i > Len(ls) THEN <<>>
    ELSE IF IsBlank(ls[i]) THEN Kept(ls, i + 1) ELSE <<ls[i]>> \o Kept(ls, i + 1)

\* C9: the running configuration get_config returns is the device output
\* with its blank lines removed: normalizing it again changes nothing, it
\* holds no empty or whitespace-only line, and its lines are the non-blank
\* lines of the output, unchanged and in order, each ended by one line break.
C9_NormalizeIdempotent ==
    (last.op = "get_config" /\ last.sent) =>
       LET running == last.result.val.running
       IN /\ last.result.out = "return"
          /\ normalize(running) = running
          /\ running # <<>> => running[Len(running)] = "\n"
          /\ \A i \in 1..Len(WholeLines(running)) : ~IsBlank(WholeLines(running)[i])
          /\ WholeLines(running) = Kept(split(last.output, "\n"), 1)

\* an output with a whitespace-only line between two kept lines, the second
\* with a leading blank and no line break after it
C9_Witness ==
    /\ last.op = "get_config" /\ last.sent
    /\ last.output = <<"a", "\n", " ", "\n", " ", "a">>
    /\ last.result.val.running = <<"a", "\n", " ", "a", "\n">>

-----------------------------------------------------------------------------
(* Claims about the scanners, checked under SpecScan *)

SummaryDone == scan.pc = "done" /\ scan.fn = "summary"
VersionDone == scan.pc = "done" /\ scan.fn = "version"

\* the lines of the text handed to the running scan
InputLines == WholeLines(scan.data)

\* the text after a leading keyword and colon
After(line, kw) == SubSeq(line, Len(kw) + 2, Len(line))
IsField(line, kw) == StartsWith(line, kw \o <<":">>)

\* positions of the lines holding kw
Holding(kw) == {i \in 1..Len(InputLines) : Contains(InputLines[i], kw)}

\* fqdn is non-empty only if a DNSDomain line stands at or after a line that
\* set the hostname
FqdnOnlyAfterHostname ==
    (scan.result.out = "return" /\ scan.result.val.fqdn # <<>>) =>
       \E i \in Holding(sName), j \in Holding(sDNSDomain) :
          i <= j /\ HasIndex1(split(InputLines[i], ":"))
                 /\ Index1(split(InputLines[i], ":")) # <<>>

\* what the claim says the scan yields for the lines i, j, k
Yields(i, j, k) ==
    /\ scan.result.out = "return"
    /\ scan.result.val.hostname_ = lower(After(InputLines[i], sName))
    /\ scan.result.val.fqdn =
          lower(After(InputLines[i], sName)) \o <<".">> \o After(InputLines[j], sDNSDomain)
    /\ scan.result.val.serial_number = After(InputLines[k], sSerialNumber)

\* C3, as stated: a "Name:<h>" line followed by a "DNSDomain:<d>" line and a
\* "Serial Number:<s>" line yields hostname lowercase(h), fqdn
\* lowercase(h).d and serial number s, for any h, d and s.
C3_AsStated ==
    SummaryDone =>
       /\ \A i, j, k \in 1..Len(InputLines) :
             (/\ i < j /\ i < k
              /\ IsField(InputLines[i], sName)
              /\ IsField(InputLines[j], sDNSDomain)
              /\ IsField(InputLines[k], sSerialNumber)) => Yields(i, j, k)
       /\ FqdnOnlyAfterHostname

Plain(v) ==
    /\ \A n \in 1..Len(v) : v[n] # ":" /\ v[n] \notin LineBreaks
    /\ v = strip(v)

\* C3, amended: when the only lines holding "Name", "DNSDomain" and
\* "Serial Number" are one "Name:<h>" line followed by one "DNSDomain:<d>"
\* line and one "Serial Number:<s>" line, with h not empty and h, d, s free
\* of colons, line breaks and leading or trailing whitespace, the scan yields hostname
\* lowercase(h), fqdn lowercase(h).d and serial number s; and whenever the
\* scan returns, fqdn is non-empty only if a DNSDomain line stands at or
\* after a line that set the hostname.
C3_SummaryFields ==
    SummaryDone =>
       /\ \A i, j, k \in 1..Len(InputLines) :
             (/\ i < j /\ i < k
              /\ Holding(sName) = {i}
              /\ Holding(sDNSDomain) = {j}
              /\ Holding(sSerialNumber) = {k}
              /\ IsField(InputLines[i], sName)
              /\ IsField(InputLines[j], sDNSDomain)
              /\ IsField(InputLines[k], sSerialNumber)
              /\ After(InputLines[i], sName) # <<>>
              /\ Plain(After(InputLines[i], sName))
              /\ Plain(After(InputLines[j], sDNSDomain))
              /\ Plain(After(InputLines[k], sSerialNumber))) => Yields(i, j, k)
       /\ FqdnOnlyAfterHostname

\* "Name:R", "DNSDomain:d", "Serial Number:S" scanned to ("r", "r.d", "S")
C3_Witness ==
    /\ SummaryDone
    /\ InputLines = <<sName \o <<":", "R">>, sDNSDomain \o <<":", "d">>,
                      sSerialNumber \o <<":", "S">> >>
    /\ scan.result.out = "return"
    /\ scan.result.val =
          [hostname_ |-> <<"r">>, fqdn |-> <<"r", ".", "d">>, serial_number |-> <<"S">>]

\* the numeric tokens of an uptime line, as numbers
TokensOf(line) ==
    LET toks == SelectSeq(split_ws(SubSeq(line, Len(sAPUptimeIs) + 1, Len(line))), isnumeric)
    IN [n \in 1..Len(toks) |-> int(toks[n])]

\* the seconds the claim gives for the tokens
ClaimedUptime(t) ==
    IF Len(t) = 5 THEN 604800 * t[1] + 86400 * t[2] + 3600 * t[3] + 60 * t[4] + t[5]
    ELSE IF Len(t) = 4 THEN 604800 * t[1] + 86400 * t[2] + 3600 * t[3] + 60 * t[4]
    ELSE 0

\* C4: for a text with one "AP uptime is" line (and no MODEL line) the scan
\* completes with uptime the seconds of its 5 or 4 numeric tokens, and with
\* uptime 0 for any other token count or when there is no uptime line.
C4_UptimeSeconds ==
    (VersionDone /\ Holding(sMODEL) = {} /\ Cardinality(Holding(sAPUptimeIs)) <= 1) =>
       /\ scan.result.out = "return"
       /\ scan.result.val.uptime.t = "float"
       /\ scan.result.val.uptime.v =
             IF Holding(sAPUptimeIs) = {} THEN 0
             ELSE ClaimedUptime(TokensOf(InputLines[CHOOSE i \in Holding(sAPUptimeIs) : TRUE]))

\* a step of the summary scan: one line scanned, or the return
SummaryStep == scan.pc = "loop" /\ scan.fn = "summary"

ScannedLine == scan.lines[scan.i]

\* C6, as stated: once hostname is set no later line changes it, and once
\* serialNumber is set no later line changes it.
C6_AsStated ==
    [][SummaryStep =>
          /\ scan.acc.hostname_ # <<>> => scan'.acc.hostname_ = scan.acc.hostname_
          /\ scan.acc.serial_number # <<>> => scan'.acc.serial_number = scan.acc.serial_number]_vars

\* C6, amended: once hostname is set no later line changes it (first match
\* wins); serialNumber is set again by every scanned "Serial Number" line
\* (last match wins) and is left alone by every other line.
C6_FirstNameLastSerial ==
    [][SummaryStep =>
          /\ scan.acc.hostname_ # <<>> => scan'.acc.hostname_ = scan.acc.hostname_
          /\ (scan.i <= Len(scan.lines) /\ scan'.acc.exc = "none") =>
                scan'.acc.serial_number =
                   IF Contains(ScannedLine, sSerialNumber)
                   THEN Index1(split(ScannedLine, ":"))
                   ELSE scan.acc.serial_number
          /\ scan.i > Len(scan.lines) => scan'.acc = scan.acc]_vars

\* "Name:R", then a line holding "Name" and "Serial Number:Q", then
\* "Serial Number:S": hostname stays "r", the serial number ends as "S"
C6_Witness ==
    /\ SummaryDone
    /\ InputLines = <<sName \o <<":", "R">>, BothLine, sSerialNumber \o <<":", "S">> >>
    /\ scan.result.out = "return"
    /\ scan.result.val.hostname_ = <<"r">>
    /\ scan.result.val.serial_number = <<"S">>

=============================================================================
